---- MODULE Spec2Model ----
(***************************************************************************)
(* The syntax-dialect downgrade pipeline of docs/planning: the rewrite     *)
(* passes of fix_dotnet_syntax.py, fix_api_calls.py, fix_json.py,          *)
(* fix_using_declarations.py and fix_remaining_syntax.py, and the batch    *)
(* drivers (process_file / main) that apply them to files.                 *)
(*                                                                         *)
(* A text is a sequence of tokens.  A token is one lexical atom of the     *)
(* C# text: a word (\w+), one punctuation mark, one space " " or one line  *)
(* break "\n".  The text a token sequence stands for is the concatenation  *)
(* of its tokens, so str.split, str.join, str.replace, the `in` test and   *)
(* the regular expressions of the scripts are modelled by what they do to  *)
(* the token sequence.                                                     *)
(***************************************************************************)
EXTENDS Integers, Sequences, FiniteSets, TLC

VARIABLES
    \* the pass level: one unit's text threaded through rewrite passes
    content,    \* the text of the unit in flight
    original,   \* the text the unit started with
    before,     \* the text the last pass was applied to
    lastPass,   \* the name of the last pass applied ("" at the start)
    requested,  \* TRUE once an applied pass found its call pattern in the text
    warnings,   \* the warnings the passes have recorded
    \* the driver level: main() of a script looping over its files
    disk,       \* path -> [exists, bytes, access]: the project tree
    pc,         \* "idle", "running", "done" (summary printed) or "crashed"
    driver,     \* the script whose main() runs or ran last ("none" at the start)
    queue,      \* the paths main()'s loop has still to visit
    modified,   \* main()'s counter of files process_file returned True for
    errors,     \* the paths an "Error reading"/"Error writing" line was printed for
    attempted,  \* history: the paths the loop has visited in this run
    written,    \* history: the paths written in this run
    start,      \* history: the tree as it was when this run started
    writers,    \* history: path -> the scripts that have written it
    lastCall,   \* history: the last process_file call and how it ended
    origin      \* history: the tree as it was before any script ran

passVars == <<content, original, before, lastPass, requested, warnings>>
driverVars == <<disk, pc, driver, queue, modified, errors, attempted, written, start,
                writers, lastCall, origin>>
vars == <<passVars, driverVars>>

(***************************************************************************)
(* Bounds of the model.                                                    *)
(***************************************************************************)
\* the most lines of a unit at the pass level
MaxLines == 2
\* the most lines of a unit in the import-injection runs
MaxImportLines == 3

(***************************************************************************)
(* Tokens.                                                                 *)
(***************************************************************************)
NL == "\n"
SP == " "
WS == {SP, NL}
NonWord == WS \cup {"?", ";", ",", "(", ")", "<", ">", "[", "]", "{", "}",
                    "=", "=>", "!=", "==", ".", ":", "//", "\"",
                    "// TODO: Add using block for proper disposal"}

IsWS(t) == t \in WS
IsWord(t) == t \notin NonWord

(***************************************************************************)
(* str.split('\n'), '\n'.join, str.strip, startswith, endswith, `in`,      *)
(* str.replace and list.insert on token sequences.                         *)
(***************************************************************************)
\* the value of the last of a run of statements `content = f(content)`: the
\* stages are computed in order, each from the one before
Last(stages) == stages[Len(stages)]

Min(S) == CHOOSE x \in S : \A y \in S : x <= y
Max(S) == CHOOSE x \in S : \A y \in S : x >= y

RECURSIVE Split(_)
Split(text) ==
    LET breaks == {i \in 1..Len(text) : text[i] = NL}
    IN IF breaks = {} THEN <<text>>
       ELSE <<SubSeq(text, 1, Min(breaks) - 1)>>
            \o Split(SubSeq(text, Min(breaks) + 1, Len(text)))

RECURSIVE Join(_)
Join(lines) ==
    IF lines = <<>> THEN <<>>
    ELSE IF Len(lines) = 1 THEN lines[1]
    ELSE lines[1] \o <<NL>> \o Join(Tail(lines))

\* the positions of s that hold no whitespace
Inked(s) == {i \in 1..Len(s) : ~IsWS(s[i])}

LStrip(s) == IF Inked(s) = {} THEN <<>> ELSE SubSeq(s, Min(Inked(s)), Len(s))
RStrip(s) == IF Inked(s) = {} THEN <<>> ELSE SubSeq(s, 1, Max(Inked(s)))
Strip(s) == RStrip(LStrip(s))

StartsWith(s, p) == Len(s) >= Len(p) /\ SubSeq(s, 1, Len(p)) = p
EndsWith(s, p) == Len(s) >= Len(p) /\ SubSeq(s, Len(s) - Len(p) + 1, Len(s)) = p

MatchesAt(s, i, p) == i + Len(p) - 1 <= Len(s) /\ SubSeq(s, i, i + Len(p) - 1) = p

Contains(s, p) == \E i \in 1..Len(s) : MatchesAt(s, i, p)

RECURSIVE ReplaceFrom(_, _, _, _)
\* the text from position i with every occurrence of p, left to right, replaced by r
ReplaceFrom(s, i, p, r) ==
    LET hits == {j \in i..Len(s) : MatchesAt(s, j, p)}
    IN IF hits = {} THEN SubSeq(s, i, Len(s))
       ELSE SubSeq(s, i, Min(hits) - 1) \o r \o ReplaceFrom(s, Min(hits) + Len(p), p, r)

Replace(s, p, r) == ReplaceFrom(s, 1, p, r)

InsertAt(lines, k, line) ==
    SubSeq(lines, 1, k) \o <<line>> \o SubSeq(lines, k + 1, Len(lines))

(***************************************************************************)
(* re.sub on token sequences.  A pattern is a sequence of elements         *)
(*   [k |-> "lit",  t |-> S, c |-> b]   one token of S                     *)
(*   [k |-> "opt",  t |-> S, c |-> b]   an optional token of S             *)
(*   [k |-> "ws*",  ...]                \s*                                *)
(*   [k |-> "ws+",  ...]                \s+                                *)
(*   [k |-> "word", ...]                \w+  (one word token)              *)
(*   [k |-> "not+", t |-> S, c |-> b]   [^S]+ (greedy; every use is        *)
(*                                      followed by a token of S or ends   *)
(*                                      the pattern, so no backtracking)   *)
(*   [k |-> "ws*not+", t |-> S]         \s*([^S]+)                         *)
(*   [k |-> "ref", n |-> g]             \g, the text of capture group g    *)
(*   [k |-> "any*?"]                    .*?                                *)
(* c marks a capture group.  MatchEnd gives the position after the match   *)
(* that starts at i and the captured ranges, or end 0 when there is none.  *)
(***************************************************************************)
Lit(t) == [k |-> "lit", t |-> {t}, c |-> FALSE]
Opt(t) == [k |-> "opt", t |-> {t}, c |-> FALSE]
Ws0 == [k |-> "ws*", t |-> {}, c |-> FALSE]
Ws1 == [k |-> "ws+", t |-> {}, c |-> FALSE]
WsTok == [k |-> "lit", t |-> WS, c |-> FALSE]
Word == [k |-> "word", t |-> {}, c |-> TRUE]
Not1(S) == [k |-> "not+", t |-> S, c |-> TRUE]
WsNot1(S) == [k |-> "ws*not+", t |-> S, c |-> TRUE]
Ref(n) == [k |-> "ref", t |-> {}, c |-> FALSE, n |-> n]
AnyLazy == [k |-> "any*?", t |-> {}, c |-> FALSE]
Cap(e) == [e EXCEPT !.c = TRUE]
NoCap(e) == [e EXCEPT !.c = FALSE]

Lits(ts) == [i \in 1..Len(ts) |-> Lit(ts[i])]

NoMatch == [end |-> 0, caps |-> <<>>]

\* the least element of S, or d when S is empty
MinOr(S, d) == IF S = {} THEN d ELSE Min(S)

\* the position after the longest run, from i, of tokens that are in S (inS) or not in S
RunEnd(s, i, S, inS) ==
    MinOr({j \in i..Len(s) : (s[j] \in S) # inS}, IF i > Len(s) THEN i ELSE Len(s) + 1)

\* the end of the line that position i is in: the position of its "\n", or Len + 1
LineEnd(s, i) == RunEnd(s, i, {NL}, FALSE)

\* where the text captured by element e at i starts; w: the end of the whitespace from i
StepFrom(s, i, e, w) ==
    IF e.k # "ws*not+" THEN i ELSE IF w <= Len(s) /\ s[w] \notin e.t THEN w ELSE w - 1

\* the position after element e (any but .*?) matched at i, or 0
StepEnd(s, i, e, caps, w) ==
    CASE e.k = "lit"  -> IF i <= Len(s) /\ s[i] \in e.t THEN i + 1 ELSE 0
      [] e.k = "opt"  -> IF i <= Len(s) /\ s[i] \in e.t THEN i + 1 ELSE i
      [] e.k = "ws*"  -> w
      [] e.k = "ws+"  -> IF i <= Len(s) /\ IsWS(s[i]) THEN w ELSE 0
      [] e.k = "word" -> IF i <= Len(s) /\ IsWord(s[i]) THEN i + 1 ELSE 0
      [] e.k = "not+" -> IF i <= Len(s) /\ s[i] \notin e.t THEN RunEnd(s, i, e.t, FALSE) ELSE 0
      [] e.k = "ws*not+" ->
            \* \s*([^S]+) where no whitespace is in S: the group starts after the
            \* whitespace, or is its last character when nothing else follows
            IF w <= Len(s) /\ s[w] \notin e.t THEN RunEnd(s, w, e.t, FALSE)
            ELSE IF w > i THEN w ELSE 0
      [] e.k = "ref"  -> IF MatchesAt(s, i, caps[e.n]) THEN i + Len(caps[e.n]) ELSE 0

\* the match of element e that ends before j (0: none) and captures from `from`
Taken(s, e, caps, from, j) ==
    IF j = 0 THEN NoMatch
    ELSE [end |-> j, caps |-> IF e.c THEN Append(caps, SubSeq(s, from, j - 1)) ELSE caps]

StepW(s, i, e, caps, w) == Taken(s, e, caps, StepFrom(s, i, e, w), StepEnd(s, i, e, caps, w))

\* one element e of a pattern (any but .*?) matched at position i
Step(s, i, e, caps) == StepW(s, i, e, caps, RunEnd(s, i, WS, TRUE))

RECURSIVE MatchSeq(_, _, _, _)
\* the second half of pat matched after its first half (matched as left)
MatchRight(s, pat, left) ==
    IF left.end = 0 THEN NoMatch
    ELSE MatchSeq(s, left.end, SubSeq(pat, Len(pat) \div 2 + 1, Len(pat)), left.caps)

\* a pattern without .*? matched at position i: its first half, then its second half
MatchSeq(s, i, pat, caps) ==
    IF pat = <<>> THEN [end |-> i, caps |-> caps]
    ELSE IF Len(pat) = 1 THEN Step(s, i, pat[1], caps)
    ELSE MatchRight(s, pat, MatchSeq(s, i, SubSeq(pat, 1, Len(pat) \div 2), caps))

\* of the candidates [at, end, caps] of a scan (at = 0: no match there), the
\* one with the least position
Leftmost(hits) ==
    IF \A h \in hits : h.at = 0 THEN [at |-> 0, end |-> 0, caps |-> <<>>]
    ELSE CHOOSE h \in hits : h.at > 0 /\ \A g \in hits : g.at > 0 => h.at <= g.at

\* the position of the first .*? of a pattern, or 0
FirstLazy(pat) == MinOr({k \in 1..Len(pat) : pat[k].k = "any*?"}, 0)

RECURSIVE MatchEnd(_, _, _, _)
\* the rest of pat after its .*? at k, matched from j, the .*? having run from pre.end to j
LazyAt(s, pat, k, pre, j, m) == [at |-> IF m.end > 0 THEN j ELSE 0, end |-> m.end, caps |-> m.caps]

LazyTry(s, pat, k, pre, j) ==
    LazyAt(s, pat, k, pre, j,
           MatchEnd(s, j, SubSeq(pat, k + 1, Len(pat)),
                    IF pat[k].c THEN Append(pre.caps, SubSeq(s, pre.end, j - 1)) ELSE pre.caps))

\* .*? : the shortest run inside the line after which the rest matches
MatchLazy(s, pat, k, pre) ==
    IF k = 0 \/ pre.end = 0 THEN pre
    ELSE Leftmost({LazyTry(s, pat, k, pre, j) : j \in pre.end..LineEnd(s, pre.end)})

MatchSplit(s, i, pat, caps, k) ==
    MatchLazy(s, pat, k, MatchSeq(s, i, IF k = 0 THEN pat ELSE SubSeq(pat, 1, k - 1), caps))

\* the match of pat that starts at i: [end, caps], end = 0 when there is none
MatchEnd(s, i, pat, caps) == MatchSplit(s, i, pat, caps, FirstLazy(pat))

\* A replacement template is a sequence of items: T(tokens) stands for the
\* tokens themselves, G(n) for the text of capture group n.
T(toks) == [n |-> 0, t |-> toks]
G(n) == [n |-> n, t |-> <<>>]

RECURSIVE Expand(_, _)
Expand(tpl, caps) ==
    IF tpl = <<>> THEN <<>>
    ELSE (IF Head(tpl).n > 0 THEN caps[Head(tpl).n] ELSE Head(tpl).t) \o Expand(Tail(tpl), caps)

\* a non-empty match m found at j, as a candidate
Hit(j, m) == [at |-> IF m.end > j THEN j ELSE 0, end |-> m.end, caps |-> m.caps]

\* the first non-empty match of pat at or after i: [at, end, caps], at = 0 for none
FirstMatch(s, i, pat) == Leftmost({Hit(j, MatchEnd(s, j, pat, <<>>)) : j \in i..Len(s)})

RECURSIVE SubFrom(_, _, _, _)
SubAt(s, i, pat, tpl, m) ==
    IF m.at = 0 THEN SubSeq(s, i, Len(s))
    ELSE SubSeq(s, i, m.at - 1) \o Expand(tpl, m.caps) \o SubFrom(s, m.end, pat, tpl)

\* the text from position i with every match, left to right, replaced by tpl
SubFrom(s, i, pat, tpl) == SubAt(s, i, pat, tpl, FirstMatch(s, i, pat))

\* re.sub(pat, tpl, s)
Sub(s, pat, tpl) == SubFrom(s, 1, pat, tpl)

\* re.search(pat, s): the first match, at = 0 when there is none
Search(s, pat) == FirstMatch(s, 1, pat)

\* a statement `content = re.sub(pat, tpl, content)`
Rule(pat, tpl) == [pat |-> pat, tpl |-> tpl]

RECURSIVE SubAll(_, _)
\* the second half of the statements, run on the result (done) of the first half
SubRest(done, rules) ==
    Last(<<done, SubAll(done, SubSeq(rules, Len(rules) \div 2 + 1, Len(rules)))>>)

\* a run of such statements, in order: the first half of them, then the second
SubAll(s, rules) ==
    IF rules = <<>> THEN s
    ELSE IF Len(rules) = 1 THEN Sub(s, rules[1].pat, rules[1].tpl)
    ELSE SubRest(SubAll(s, SubSeq(rules, 1, Len(rules) \div 2)), rules)

(***************************************************************************)
(* fix_dotnet_syntax.py: the dialect-lowering passes.                      *)
(***************************************************************************)
INDENT == <<SP, SP, SP, SP>>

RECURSIVE NamespaceLines(_, _, _)
\* the loop of fix_file_scoped_namespace; namespace_found and in_namespace are
\* set together and never reset, so one flag stands for both
NamespaceLines(lines, namespace_found, new_lines) ==
    IF lines = <<>>
    THEN IF namespace_found THEN Append(new_lines, <<"}">>) ELSE new_lines
    ELSE LET line == Head(lines)
             stripped == Strip(line)
         IN IF StartsWith(stripped, <<"namespace", SP>>) /\ EndsWith(stripped, <<";">>)
               /\ ~namespace_found
            THEN LET namespace_name == Strip(SubSeq(stripped, 3, Len(stripped) - 1))
                 IN NamespaceLines(Tail(lines), TRUE,
                        new_lines \o << <<"namespace", SP>> \o namespace_name, <<"{">> >>)
            ELSE IF namespace_found
            THEN NamespaceLines(Tail(lines), namespace_found,
                     Append(new_lines, IF stripped # <<>> THEN INDENT \o line ELSE line))
            ELSE NamespaceLines(Tail(lines), namespace_found, Append(new_lines, line))

\* fix_file_scoped_namespace that takes the `;` off every namespace declaration
fix_file_scoped_namespace_every(text) ==
    LET out == NamespaceLines(Split(text), FALSE, <<>>)
    IN Join([i \in 1..Len(out) |->
                IF StartsWith(Strip(out[i]), <<"namespace", SP>>) /\ EndsWith(out[i], <<";">>)
                THEN SubSeq(out[i], 1, Len(out[i]) - 1) ELSE out[i]])

\* fix_file_scoped_namespace without the `if stripped:` test: blank lines inside
\* the block are indented too
fix_file_scoped_namespace_indenting_blank(text) ==
    LET out == NamespaceLines(Split(text), FALSE, <<>>)
        opened == {i \in 1..Len(out) : out[i] = <<"{">>}
    IN Join([i \in 1..Len(out) |->
                IF opened # {} /\ i < Len(out) /\ Strip(out[i]) = <<>>
                   /\ \E o \in opened : o < i
                THEN INDENT \o out[i] ELSE out[i]])

fix_file_scoped_namespace(text) == Join(NamespaceLines(Split(text), FALSE, <<>>))

\* the reference-type catalog, in the order of the source; the names the
\* texts of the model use
ref_types == <<"string", "object", "Task", "List", "Color">>

\* the five statements of the loop body for one reference type
NullableRules(rt) ==
    <<Rule(<<Lit(rt), Lit("?"), WsTok>>, <<T(<<rt, SP>>)>>),
      Rule(<<Lit(rt), Lit("?"), Lit(",")>>, <<T(<<rt, ",">>)>>),
      Rule(<<Lit(rt), Lit("?"), Lit(">")>>, <<T(<<rt, ">">>)>>),
      Rule(<<Lit(rt), Lit("?"), Lit(")")>>, <<T(<<rt, ")">>)>>),
      Rule(<<Lit(rt), Lit("?"), Lit("[")>>, <<T(<<rt, "[">>)>>)>>

RECURSIVE NullableLoop(_)
\* for ref_type in ref_types: ...
NullableLoop(rts) ==
    IF rts = <<>> THEN <<>> ELSE NullableRules(Head(rts)) \o NullableLoop(Tail(rts))

\* the statements after the loop: generic types
GenericRules ==
    <<Rule(<<Lit(">"), Lit("?"), WsTok>>, <<T(<<">", SP>>)>>),
      Rule(<<Lit(">"), Lit("?"), Lit(",")>>, <<T(<<">", ",">>)>>),
      Rule(<<Lit(">"), Lit("?"), Lit(")")>>, <<T(<<">", ")">>)>>)>>

fix_nullable_annotations(text) == SubAll(text, NullableLoop(ref_types) \o GenericRules)

\* fix_pattern_matching with its first statement only
fix_pattern_matching_not_null_only(text) ==
    Sub(text, Lits(<<"is", SP, "not", SP, "null">>), <<T(<<"!=", SP, "null">>)>>)

fix_pattern_matching(text) ==
    SubAll(text,
           <<Rule(Lits(<<"is", SP, "not", SP, "null">>), <<T(<<"!=", SP, "null">>)>>),
             Rule(Lits(<<"is", SP, "null">>), <<T(<<"==", SP, "null">>)>>)>>)

fix_lambda_static(text) ==
    SubAll(text,
           <<Rule(<<Lit("static"), Ws1, Lit("("), Ws0, Lit(")"), Ws0, Lit("=>")>>,
                  <<T(<<"(", ")", SP, "=>">>)>>),
             Rule(<<Lit("static"), Ws1, Word, Ws0, Lit("=>")>>, <<G(1), T(<<SP, "=>">>)>>)>>)

fix_init_accessor(text) ==
    Sub(text, <<Lit("{"), Ws0, Lit("get"), Lit(";"), Ws0, Lit("init"), Lit(";"), Ws0, Lit("}")>>,
        <<T(<<"{", SP, "get", ";", SP, "set", ";", SP, "}">>)>>)

fix_record_types(text) ==
    Sub(text, <<Lit("record"), Ws1, Word>>, <<T(<<"public", SP, "class", SP>>), G(1)>>)

\* [\w<>\[\],\s] and [\w<>\[\],]
TypeChar(t) == IsWord(t) \/ t \in {"<", ">", "[", "]", ","}

NewInit == <<"=", SP, "new", "(", ")", ";">>
NewTail == <<Ws0, Lit("="), Ws0, Lit("new"), Lit("("), Lit(")"), Ws0, Lit(";")>>
FieldTail == <<Ws1, Word>> \o NewTail
PropTail == <<Ws1, Word, Ws0, Lit("{"), Ws0, Lit("get"), Lit(";"), Ws0, Lit("set"), Lit(";"),
              Ws0, Lit("}")>> \o NewTail

\* str.split()[-1] of a stripped text: its last whitespace-delimited word
LastChunk(s) ==
    LET blanks == {i \in 1..Len(s) : IsWS(s[i])}
    IN IF blanks = {} THEN s ELSE SubSeq(s, Max(blanks) + 1, Len(s))

\* the positions g from whose successor the rest of a pattern (tail) matches
TailStarts(s, tail) == {g \in 1..Len(s) : MatchEnd(s, g + 1, tail, <<>>).end > 0}

\* the ends g of a group 1 that starts at i: s[i..g] is in the class and the
\* rest of the pattern matches from g + 1 (good: TailStarts of the rest); ws:
\* the class holds \s too
GroupEnds(s, i, ws, good) ==
    {g \in good : g >= i /\ \A k \in i..g : TypeChar(s[k]) \/ (ws /\ IsWS(s[k]))}

\* Pattern 1 of fix_target_typed_new on one line: group 1 is lazy, so it is
\* the shortest one from the leftmost start
FieldIn(line, good) ==
    LET starts == {i \in 1..Len(line) : GroupEnds(line, i, TRUE, good) # {}}
    IN IF starts = {} THEN line
       ELSE LET i == Min(starts)
                g == Min(GroupEnds(line, i, TRUE, good))
                type_words == LastChunk(Strip(SubSeq(line, i, g)))
            IN IF type_words # <<>>
               THEN Replace(line, NewInit, <<"=", SP, "new", SP>> \o type_words \o <<"(", ")", ";">>)
               ELSE line

TypedNewField(line) == FieldIn(line, TailStarts(line, FieldTail))

PropertyIn(line, good) ==
    LET starts == {i \in 1..Len(line) : GroupEnds(line, i, FALSE, good) # {}}
    IN IF starts = {} THEN line
       ELSE LET i == Min(starts)
                g == Max(GroupEnds(line, i, FALSE, good))
                type_name == SubSeq(line, i, g)
            IN Replace(line, NewInit, <<"=", SP, "new", SP>> \o type_name \o <<"(", ")", ";">>)

\* Pattern 2 of fix_target_typed_new on one line: group 1 is greedy
TypedNewProperty(line) == PropertyIn(line, TailStarts(line, PropTail))

TypedNewLine(line) == TypedNewProperty(TypedNewField(line))

RECURSIVE TypedNewLines(_)
TypedNewLines(lines) ==
    IF lines = <<>> THEN <<>> ELSE <<TypedNewLine(Head(lines))>> \o TypedNewLines(Tail(lines))

fix_target_typed_new(text) == Join(TypedNewLines(Split(text)))

(***************************************************************************)
(* The import insertion every import-injecting pass repeats: find the last *)
(* line that starts with "using " and ends with ";" and insert the         *)
(* directive line after it; without such a line the text is unchanged.     *)
(***************************************************************************)
IsUsingLine(line) ==
    StartsWith(Strip(line), <<"using", SP>>) /\ EndsWith(Strip(line), <<";">>)

\* last_using_idx + 1: the number of lines up to the last using line, 0 for none
LastUsing(lines) ==
    LET hits == {i \in 1..Len(lines) : IsUsingLine(lines[i])}
    IN IF hits = {} THEN 0 ELSE Max(hits)

InsertAfterLastUsing(text, directive_line) ==
    LET lines == Split(text)
        last_using == LastUsing(lines)
    IN IF last_using >= 1 THEN Join(InsertAt(lines, last_using, directive_line)) ELSE text

(***************************************************************************)
(* fix_api_calls.py: the runtime-API remap passes.                         *)
(***************************************************************************)
HelpersUsing == <<"using", SP, "SvonyBrowser", ".", "Helpers", ";">>

\* `if 'using SvonyBrowser.Helpers;' not in content:` and the insertion under it
AddHelpersUsing(text) ==
    IF ~Contains(text, HelpersUsing)
    THEN InsertAfterLastUsing(text, INDENT \o HelpersUsing)
    ELSE text

FileWrite == <<"File", ".", "WriteAllTextAsync">>
FileRead == <<"File", ".", "ReadAllTextAsync">>
MathClamp == <<"Math", ".", "Clamp">>
HashData == <<"SHA256", ".", "HashData">>

fix_file_async_methods(text) ==
    LET a == IF Contains(text, FileWrite) \/ Contains(text, FileRead)
             THEN AddHelpersUsing(text) ELSE text
        b == Replace(a, FileWrite, <<"FileEx", ".", "WriteAllTextAsync">>)
    IN Replace(b, FileRead, <<"FileEx", ".", "ReadAllTextAsync">>)

fix_math_clamp(text) ==
    LET a == IF Contains(text, MathClamp) THEN AddHelpersUsing(text) ELSE text
    IN Replace(a, MathClamp, <<"MathEx", ".", "Clamp">>)

fix_sha256_hashdata(text) ==
    LET a == IF Contains(text, HashData) THEN AddHelpersUsing(text) ELSE text
    IN Replace(a, HashData, <<"HashEx", ".", "SHA256">>)

\* fix_sockets_http_handler with [^}]+ for the value: the removal runs up to the
\* closing brace
fix_sockets_http_handler_to_brace(text) ==
    LET a == Replace(text, <<"SocketsHttpHandler">>, <<"HttpClientHandler">>)
    IN Sub(a, <<Opt(","), Ws0, Lit("PooledConnectionLifetime"), Ws0, Lit("="),
                NoCap(WsNot1({"}"}))>>, <<>>)

fix_sockets_http_handler(text) ==
    LET a == Replace(text, <<"SocketsHttpHandler">>, <<"HttpClientHandler">>)
    IN Sub(a, <<Opt(","), Ws0, Lit("PooledConnectionLifetime"), Ws0, Lit("="),
                NoCap(WsNot1({",", "}"}))>>, <<>>)

\* fix_wait_async as a renaming pass: the import and a new call name
fix_wait_async_renaming(text) ==
    LET a == IF Contains(text, <<".", "WaitAsync", "(">>) THEN AddHelpersUsing(text) ELSE text
    IN Replace(a, <<".", "WaitAsync", "(">>, <<".", "WaitAsyncEx", "(">>)

fix_wait_async(text) ==
    IF Contains(text, <<".", "WaitAsync", "(">>) THEN AddHelpersUsing(text) ELSE text

fix_get_value_or_default(text) ==
    IF Contains(text, <<".", "GetValueOrDefault", "(">>) THEN AddHelpersUsing(text) ELSE text

fix_take_last_skip_last(text) ==
    IF Contains(text, <<".", "TakeLast", "(">>) \/ Contains(text, <<".", "SkipLast", "(">>)
    THEN AddHelpersUsing(text) ELSE text

(***************************************************************************)
(* fix_json.py: the serialization-API remap passes.                        *)
(***************************************************************************)
NewtonsoftUsing == <<"using", SP, "Newtonsoft", ".", "Json", ";">>

fix_json_imports(text) ==
    LET a == Replace(text, <<"using", SP, "System", ".", "Text", ".", "Json", ";">>, NewtonsoftUsing)
    IN Replace(a, <<"using", SP, "System", ".", "Text", ".", "Json", ".", "Serialization", ";">>,
               <<"using", SP, "Newtonsoft", ".", "Json", ".", "Serialization", ";">>)

fix_json_serializer_options(text) ==
    LET a == Replace(text, <<"JsonSerializerOptions">>, <<"JsonSerializerSettings">>)
        b == Replace(a, <<"PropertyNamingPolicy", SP, "=", SP, "JsonNamingPolicy", ".", "CamelCase">>,
                     <<"ContractResolver", SP, "=", SP, "new", SP,
                       "CamelCasePropertyNamesContractResolver", "(", ")">>)
        c == Replace(b, <<"PropertyNameCaseInsensitive", SP, "=", SP, "true">>,
                     <<"ContractResolver", SP, "=", SP, "new", SP, "DefaultContractResolver", "(", ")">>)
        d == Replace(c, <<"WriteIndented", SP, "=", SP, "true">>,
                     <<"Formatting", SP, "=", SP, "Formatting", ".", "Indented">>)
        e == Replace(d, <<"DefaultIgnoreCondition", SP, "=", SP, "JsonIgnoreCondition", ".",
                          "WhenWritingNull">>,
                     <<"NullValueHandling", SP, "=", SP, "NullValueHandling", ".", "Ignore">>)
    IN Last(<<a, b, c, d, e>>)

SerializeObject == <<"JsonConvert", ".", "SerializeObject">>
DeserializeObject == <<"JsonConvert", ".", "DeserializeObject">>

\* fix_json_serialize with the generic form `Serialize<T>(x)` as its only pattern
fix_json_serialize_generic_only(text) ==
    Sub(text,
        Lits(<<"JsonSerializer", ".", "Serialize", "<">>)
            \o <<Not1({">"}), Lit(">"), Lit("("), Not1({")"}), Lit(")")>>,
        <<T(SerializeObject \o <<"(">>), G(2), T(<<")">>)>>)

fix_json_serialize(text) ==
    SubAll(text,
           <<Rule(Lits(<<"JsonSerializer", ".", "Serialize", "(">>)
                  \o <<Not1({","}), Lit(","), WsNot1({")"}), Lit(")")>>,
                  <<T(SerializeObject \o <<"(">>), G(1), T(<<",", SP>>), G(2), T(<<")">>)>>),
             Rule(Lits(<<"JsonSerializer", ".", "Serialize", "(">>) \o <<Not1({")"}), Lit(")")>>,
                  <<T(SerializeObject \o <<"(">>), G(1), T(<<")">>)>>),
             Rule(Lits(<<"JsonSerializer", ".", "Serialize", "<">>)
                  \o <<Not1({">"}), Lit(">"), Lit("("), Not1({")"}), Lit(")")>>,
                  <<T(SerializeObject \o <<"(">>), G(2), T(<<")">>)>>)>>)

fix_json_deserialize(text) ==
    SubAll(text,
           <<Rule(Lits(<<"JsonSerializer", ".", "Deserialize", "<">>)
                  \o <<Not1({">"}), Lit(">"), Lit("("), Not1({","}), Lit(","),
                       WsNot1({")"}), Lit(")")>>,
                  <<T(DeserializeObject \o <<"<">>), G(1), T(<<">", "(">>), G(2), T(<<",", SP>>),
                    G(3), T(<<")">>)>>),
             Rule(Lits(<<"JsonSerializer", ".", "Deserialize", "<">>)
                  \o <<Not1({">"}), Lit(">"), Lit("("), Not1({")"}), Lit(")")>>,
                  <<T(DeserializeObject \o <<"<">>), G(1), T(<<">", "(">>), G(2), T(<<")">>)>>)>>)

fix_json_attributes(text) ==
    LET a == Replace(text, <<"[", "JsonPropertyName", "(">>,
                     <<"[", "JsonProperty", "(", "PropertyName", SP, "=", SP>>)
    IN Replace(a, <<"[", "JsonIgnore", "(", "Condition", SP, "=", SP, "JsonIgnoreCondition", ".",
                    "WhenWritingNull", ")", "]">>,
               <<"[", "JsonProperty", "(", "NullValueHandling", SP, "=", SP, "NullValueHandling",
                 ".", "Ignore", ")", "]">>)

\* add_newtonsoft_using without its `'using Newtonsoft.Json;' not in content` test
add_newtonsoft_using_unguarded(text) ==
    IF Contains(text, <<"Newtonsoft", ".", "Json">>)
    THEN InsertAfterLastUsing(text, NewtonsoftUsing)
    ELSE text

add_newtonsoft_using(text) ==
    IF Contains(text, <<"Newtonsoft", ".", "Json">>) /\ ~Contains(text, NewtonsoftUsing)
    THEN InsertAfterLastUsing(text, NewtonsoftUsing)
    ELSE text

(***************************************************************************)
(* fix_using_declarations.py: the resource-declaration lowering passes.    *)
(***************************************************************************)
ReviewMarker == "// TODO: Add using block for proper disposal"
LinqUsing == <<"using", SP, "Newtonsoft", ".", "Json", ".", "Linq", ";">>

\* fix_using_var builds `result` and returns `content`
fix_using_var(text) == text

fix_using_var_simple(text) ==
    Sub(text, <<Cap(Ws0), Lit("using"), Lit(SP), Lit("var"), Lit(SP), Word, Ws0, Lit("="),
                WsNot1({";"}), Lit(";")>>,
        <<G(1), T(<<"var", SP>>), G(2), T(<<SP, "=", SP>>), G(3), T(<<";", SP, ReviewMarker>>)>>)

fix_json_document(text) ==
    LET a == Replace(text, <<"JsonDocument", ".", "Parse">>, <<"JObject", ".", "Parse">>)
    IN Replace(a, <<"using", SP, "var", SP, "doc", SP, "=", SP, "JObject", ".", "Parse">>,
               <<"var", SP, "doc", SP, "=", SP, "JObject", ".", "Parse">>)

add_newtonsoft_linq_using(text) ==
    IF Contains(text, <<"JObject", ".", "Parse">>) /\ ~Contains(text, LinqUsing)
    THEN InsertAfterLastUsing(text, LinqUsing)
    ELSE text

(***************************************************************************)
(* fix_remaining_syntax.py.                                                *)
(***************************************************************************)
LazyNew == <<Lit("new"), Lit("("), Lit("("), Lit(")"), Ws0, Lit("=>"), Ws0, Lit("new"), Ws1,
             Ref(1), Lit("("), Lit(")")>>

fix_lazy_lambda(text) ==
    SubAll(text,
           <<Rule(<<Lit("Lazy"), Lit("<"), Word, Lit(">"), Cap(Ws1), Word, Cap(Ws0), Lit("="),
                    Cap(Ws0)>> \o LazyNew,
                  <<T(<<"Lazy", "<">>), G(1), T(<<">">>), G(2), G(3), G(4), T(<<"=">>), G(5),
                    T(<<"new", SP, "Lazy", "<">>), G(1),
                    T(<<">", "(", "(", ")", SP, "=>", SP, "new", SP>>), G(1), T(<<"(", ")">>)>>),
             Rule(<<Lit("Lazy"), Lit("<"), Word, Lit(">"), Cap(AnyLazy), Lit("="), Cap(Ws0)>>
                  \o LazyNew \o <<Lit(")")>>,
                  <<T(<<"Lazy", "<">>), G(1), T(<<">">>), G(2), T(<<"=">>), G(3),
                    T(<<"new", SP, "Lazy", "<">>), G(1),
                    T(<<">", "(", "(", ")", SP, "=>", SP, "new", SP>>), G(1),
                    T(<<"(", ")", ")">>)>>)>>)

PropertyTail == <<Ws1, Word, Ws0, Lit("{"), NoCap(Not1({"}"})), Lit("}"), Ws0, Lit("="), Ws0,
                  Lit("new"), Lit("("), Lit(")"), Lit(";")>>

\* the regex of fix_property_new on one line: `public`, \s+ (greedy), then the
\* lazy group 1; the first `public` from which it matches
PropertyNewIn(line, good) ==
    LET \* the starts p of group 1 after the `public` at i
        Starts(i) == IF line[i] = "public"
                     THEN {p \in (i + 2)..RunEnd(line, i + 1, WS, TRUE) :
                             GroupEnds(line, p, TRUE, good) # {}}
                     ELSE {}
        publics == {i \in 1..Len(line) : Starts(i) # {}}
    IN IF publics = {} THEN line
       ELSE LET p == Max(Starts(Min(publics)))
                g == Min(GroupEnds(line, p, TRUE, good))
                type_name == Strip(SubSeq(line, p, g))
                actual_type == IF LastChunk(type_name) # <<>> THEN LastChunk(type_name)
                               ELSE type_name
            IN Replace(line, NewInit, <<"=", SP, "new", SP>> \o actual_type \o <<"(", ")", ";">>)

PropertyNewLine(line) == PropertyNewIn(line, TailStarts(line, PropertyTail))

RECURSIVE PropertyNewLines(_)
PropertyNewLines(lines) ==
    IF lines = <<>> THEN <<>>
    ELSE <<PropertyNewLine(Head(lines))>> \o PropertyNewLines(Tail(lines))

fix_property_new(text) == Join(PropertyNewLines(Split(text)))

(***************************************************************************)
(* The pass level.  A unit is up to MaxLines lines of a catalog, joined    *)
(* by line breaks, with or without a final line break; the passes of one   *)
(* script family are applied to it, in any order and any number of times.  *)
(***************************************************************************)
\* namespace Foo.Bar;
LineNamespace ==
    <<"namespace", " ", "Foo", ".", "Bar", ";">>
\*   namespace B;
LineNamespaceB ==
    <<" ", " ", "namespace", " ", "B", ";">>
\* class X {}
LineClass ==
    <<"class", " ", "X", " ", "{", "}">>
\* string? s, int? n
LineNullable ==
    <<"string", "?", " ", "s", ",", " ", "int", "?", " ", "n">>
\* Task<string?>? t = x as string?
LineNullableEnd ==
    <<"Task", "<", "string", "?", ">", "?", " ", "t", " ", "=", " ", "x", " ", "as",
      " ", "string", "?">>
\* public record Foo
LineRecord ==
    <<"public", " ", "record", " ", "Foo">>
\* if (x is not null) { y(); }
LineIsNotNull ==
    <<"if", " ", "(", "x", " ", "is", " ", "not", " ", "null", ")", " ", "{", " ", "y",
      "(", ")", ";", " ", "}">>
\* private readonly List<string> _items = new();
LineField ==
    <<"private", " ", "readonly", " ", "List", "<", "string", ">", " ", "_items", " ",
      "=", " ", "new", "(", ")", ";">>
\* public Foo F { get; set; } = new();
LineProperty ==
    <<"public", " ", "Foo", " ", "F", " ", "{", " ", "get", ";", " ", "set", ";", " ",
      "}", " ", "=", " ", "new", "(", ")", ";">>

\* private readonly System.Timers.Timer _t = new();
LineQualified ==
    <<"private", " ", "readonly", " ", "System", ".", "Timers", ".", "Timer", " ", "_t", " ",
      "=", " ", "new", "(", ")", ";">>

DialectLines ==
    {LineNamespace, LineNamespaceB, LineClass, LineNullableEnd, LineRecord}

LoweringLines ==
    {LineNullable, LineIsNotNull, LineField, LineProperty, LineClass}

\* using System;
LineUsingSystem ==
    <<"using", " ", "System", ";">>
\*     using SvonyBrowser.Helpers;
LineHelpersUsing ==
    <<" ", " ", " ", " ", "using", " ", "SvonyBrowser", ".", "Helpers", ";">>
\* // needs using SvonyBrowser.Helpers;
LineHelpersComment ==
    <<"//", " ", "needs", " ", "using", " ", "SvonyBrowser", ".", "Helpers", ";">>
\* var y = Math.Clamp(v, 0, 1);
LineClamp ==
    <<"var", " ", "y", " ", "=", " ", "Math", ".", "Clamp", "(", "v", ",", " ", "0",
      ",", " ", "1", ")", ";">>
\* await File.WriteAllTextAsync(p, t);
LineWriteAsync ==
    <<"await", " ", "File", ".", "WriteAllTextAsync", "(", "p", ",", " ", "t", ")",
      ";">>
\* new SocketsHttpHandler { A = 1,
LineHandler ==
    <<"new", " ", "SocketsHttpHandler", " ", "{", " ", "A", " ", "=", " ", "1", ",">>
\* PooledConnectionLifetime = t }
LinePooled ==
    <<"PooledConnectionLifetime", " ", "=", " ", "t", " ", "}">>

ApiLines ==
    {LineUsingSystem, LineHelpersUsing, LineClamp, LineWriteAsync, LineHandler, LinePooled}

\* using System.Text.Json;
LineUsingJson ==
    <<"using", " ", "System", ".", "Text", ".", "Json", ";">>
\* using Newtonsoft.Json;
LineUsingNewtonsoft ==
    <<"using", " ", "Newtonsoft", ".", "Json", ";">>
\* JsonSerializer.Serialize(obj, options)
LineSerialize ==
    <<"JsonSerializer", ".", "Serialize", "(", "obj", ",", " ", "options", ")">>
\* JsonSerializer.Serialize(obj,
LineSerializeOpen ==
    <<"JsonSerializer", ".", "Serialize", "(", "obj", ",">>
\* JsonSerializer.Deserialize<Foo>(s)
LineDeserialize ==
    <<"JsonSerializer", ".", "Deserialize", "<", "Foo", ">", "(", "s", ")">>
\* using var doc = JsonDocument.Parse(s);
LineUsingVarDoc ==
    <<"using", " ", "var", " ", "doc", " ", "=", " ", "JsonDocument", ".", "Parse",
      "(", "s", ")", ";">>
\*     using var x = Open();
LineUsingVar ==
    <<" ", " ", " ", " ", "using", " ", "var", " ", "x", " ", "=", " ", "Open", "(",
      ")", ";">>

JsonLines ==
    {LineUsingJson, LineUsingNewtonsoft, LineSerialize, LineSerializeOpen, LineDeserialize,
     LineUsingVarDoc, LineUsingVar}

\* JsonSerializer.Deserialize<List<Foo>>(s)
LineDeserializeNested ==
    <<"JsonSerializer", ".", "Deserialize", "<", "List", "<", "Foo", ">", ">", "(", "s", ")">>
\* JsonSerializer.Deserialize<Foo>(s, options)
LineDeserializeTwo ==
    <<"JsonSerializer", ".", "Deserialize", "<", "Foo", ">", "(", "s", ",", " ", "options", ")">>
\* JsonSerializer.Serialize(obj)
LineSerializeOne ==
    <<"JsonSerializer", ".", "Serialize", "(", "obj", ")">>

\* the catalog of serializer calls: one-argument, two-argument and generic
CallLines ==
    {LineSerializeOne, LineSerialize, LineDeserialize, LineDeserializeTwo,
     LineDeserializeNested}

\* the import-injection catalog: an anchor, the directive as a line, the
\* directive's text inside a comment, and a call that asks for the directive
ImportLines == {LineUsingSystem, LineHelpersUsing, LineHelpersComment, LineClamp}

Texts(catalog, n) ==
    {Join(ls) \o tail : ls \in UNION {[1..k -> catalog] : k \in 0..n},
                        tail \in {<<>>, <<NL>>}}

NoDisk == <<>>
NoCall == [path |-> "", rerun |-> FALSE, outcome |-> "none"]

DriverIdle ==
    /\ disk = NoDisk /\ pc = "idle" /\ driver = "none" /\ queue = <<>> /\ modified = 0
    /\ errors = {} /\ attempted = {} /\ written = {} /\ start = NoDisk
    /\ writers = NoDisk /\ lastCall = NoCall /\ origin = NoDisk

PassInit(catalog, n) ==
    /\ content \in Texts(catalog, n)
    /\ original = content /\ before = content /\ lastPass = "" /\ requested = FALSE
    /\ warnings = {}
    /\ DriverIdle

\* the pass functions of the five scripts, by name
RunPass(name, text) ==
    CASE name = "fix_file_scoped_namespace" -> fix_file_scoped_namespace(text)
      [] name = "fix_nullable_annotations" -> fix_nullable_annotations(text)
      [] name = "fix_target_typed_new" -> fix_target_typed_new(text)
      [] name = "fix_pattern_matching" -> fix_pattern_matching(text)
      [] name = "fix_lambda_static" -> fix_lambda_static(text)
      [] name = "fix_init_accessor" -> fix_init_accessor(text)
      [] name = "fix_record_types" -> fix_record_types(text)
      [] name = "fix_lazy_lambda" -> fix_lazy_lambda(text)
      [] name = "fix_property_new" -> fix_property_new(text)
      [] name = "fix_file_async_methods" -> fix_file_async_methods(text)
      [] name = "fix_math_clamp" -> fix_math_clamp(text)
      [] name = "fix_sha256_hashdata" -> fix_sha256_hashdata(text)
      [] name = "fix_sockets_http_handler" -> fix_sockets_http_handler(text)
      [] name = "fix_wait_async" -> fix_wait_async(text)
      [] name = "fix_get_value_or_default" -> fix_get_value_or_default(text)
      [] name = "fix_take_last_skip_last" -> fix_take_last_skip_last(text)
      [] name = "fix_json_imports" -> fix_json_imports(text)
      [] name = "fix_json_serializer_options" -> fix_json_serializer_options(text)
      [] name = "fix_json_serialize" -> fix_json_serialize(text)
      [] name = "fix_json_deserialize" -> fix_json_deserialize(text)
      [] name = "fix_json_attributes" -> fix_json_attributes(text)
      [] name = "add_newtonsoft_using" -> add_newtonsoft_using(text)
      [] name = "fix_using_var" -> fix_using_var(text)
      [] name = "fix_using_var_simple" -> fix_using_var_simple(text)
      [] name = "fix_json_document" -> fix_json_document(text)
      [] name = "add_newtonsoft_linq_using" -> add_newtonsoft_linq_using(text)

\* the `if <call pattern> in content:` test under which a pass of fix_api_calls
\* asks for the helper import
Requests(name, text) ==
    CASE name = "fix_file_async_methods" -> Contains(text, FileWrite) \/ Contains(text, FileRead)
      [] name = "fix_math_clamp" -> Contains(text, MathClamp)
      [] name = "fix_sha256_hashdata" -> Contains(text, HashData)
      [] name = "fix_wait_async" -> Contains(text, <<".", "WaitAsync", "(">>)
      [] name = "fix_get_value_or_default" -> Contains(text, <<".", "GetValueOrDefault", "(">>)
      [] name = "fix_take_last_skip_last" ->
            Contains(text, <<".", "TakeLast", "(">>) \/ Contains(text, <<".", "SkipLast", "(">>)
      [] OTHER -> FALSE

\* one pass applied to the unit: its name and its output; a pass returns the
\* text and neither prints nor records anything, also when
\* `if last_using_idx >= 0:` fails
Apply(name, out) ==
    /\ content' = out
    /\ before' = content
    /\ lastPass' = name
    /\ requested' = (requested \/ Requests(name, content))
    /\ UNCHANGED <<original, warnings, driverVars>>

DialectNext ==
    \/ Apply("fix_file_scoped_namespace", fix_file_scoped_namespace(content))
    \/ Apply("fix_nullable_annotations", fix_nullable_annotations(content))
    \/ Apply("fix_target_typed_new", fix_target_typed_new(content))
    \/ Apply("fix_pattern_matching", fix_pattern_matching(content))
    \/ Apply("fix_lambda_static", fix_lambda_static(content))
    \/ Apply("fix_init_accessor", fix_init_accessor(content))
    \/ Apply("fix_record_types", fix_record_types(content))
    \/ Apply("fix_lazy_lambda", fix_lazy_lambda(content))
    \/ Apply("fix_property_new", fix_property_new(content))

SpecDialect == PassInit(DialectLines, MaxLines) /\ [][DialectNext]_vars

SpecLowering == PassInit(LoweringLines, MaxLines) /\ [][DialectNext]_vars

\* f(a is null, b is not null);
LineIsNull ==
    <<"f", "(", "a", " ", "is", " ", "null", ",", " ", "b", " ", "is", " ", "not", " ",
      "null", ")", ";">>
\* if (x is not string s)
LineIsNotType ==
    <<"if", " ", "(", "x", " ", "is", " ", "not", " ", "string", " ", "s", ")">>
\* if (n is > 5)
LineIsRelational ==
    <<"if", " ", "(", "n", " ", "is", " ", ">", " ", "5", ")">>

\* an empty line and a line of two spaces
LineEmpty == <<>>
LineSpaces == <<" ", " ">>

\* the catalog of namespace units: declarations, a type and blank lines
NamespaceUnitLines == {LineNamespace, LineNamespaceB, LineClass, LineEmpty, LineSpaces}

SpecNamespace == PassInit(NamespaceUnitLines, MaxLines) /\ [][DialectNext]_vars

\* the catalog of `is` patterns
PatternLines == {LineIsNotNull, LineIsNull, LineIsNotType, LineIsRelational, LineClass}

SpecPattern == PassInit(PatternLines, MaxLines) /\ [][DialectNext]_vars

\* var v = m[k as string?];
LineIndexer ==
    <<"var", " ", "v", " ", "=", " ", "m", "[", "k", " ", "as", " ", "string", "?", "]", ";">>
\* List<List<string>?> xs;
LineNested ==
    <<"List", "<", "List", "<", "string", ">", "?", ">", " ", "xs", ";">>
\* Color? c, bool? b
LineColor ==
    <<"Color", "?", " ", "c", ",", " ", "bool", "?", " ", "b">>

\* the catalog of nullable annotations
NullableLines ==
    {LineNullable, LineNullableEnd, LineIndexer, LineNested, LineColor, LineClass}

SpecNullable == PassInit(NullableLines, MaxLines) /\ [][DialectNext]_vars

\* the catalog of declarations with a target-typed `new()`
TypedNewDeclarations == {LineField, LineProperty, LineQualified, LineClass}

SpecTypedNew == PassInit(TypedNewDeclarations, MaxLines) /\ [][DialectNext]_vars

\* var h = SHA256.HashData(b);
LineHashData ==
    <<"var", " ", "h", " ", "=", " ", "SHA256", ".", "HashData", "(", "b", ")", ";">>
\* await t.WaitAsync(c);
LineWaitAsync ==
    <<"await", " ", "t", ".", "WaitAsync", "(", "c", ")", ";">>
\* d.GetValueOrDefault(k);
LineGetValue ==
    <<"d", ".", "GetValueOrDefault", "(", "k", ")", ";">>
\* xs.TakeLast(2);
LineTakeLast ==
    <<"xs", ".", "TakeLast", "(", "2", ")", ";">>

\* the catalog of removed runtime calls: an anchor and one line per call
RemapLines ==
    {LineUsingSystem, LineClamp, LineWriteAsync, LineHashData, LineHandler, LinePooled,
     LineWaitAsync, LineGetValue, LineTakeLast}

ApiNext ==
    \/ Apply("fix_file_async_methods", fix_file_async_methods(content))
    \/ Apply("fix_math_clamp", fix_math_clamp(content))
    \/ Apply("fix_sha256_hashdata", fix_sha256_hashdata(content))
    \/ Apply("fix_sockets_http_handler", fix_sockets_http_handler(content))
    \/ Apply("fix_wait_async", fix_wait_async(content))
    \/ Apply("fix_get_value_or_default", fix_get_value_or_default(content))
    \/ Apply("fix_take_last_skip_last", fix_take_last_skip_last(content))

SpecApi == PassInit(ApiLines, MaxLines) /\ [][ApiNext]_vars

SpecImport == PassInit(ImportLines, MaxImportLines) /\ [][ApiNext]_vars

SpecRemap == PassInit(RemapLines, MaxLines) /\ [][ApiNext]_vars

\* new SocketsHttpHandler { PooledConnectionLifetime = T.M(5), B = 2 }
LinePooledFirst ==
    <<"new", " ", "SocketsHttpHandler", " ", "{", " ", "PooledConnectionLifetime", " ", "=",
      " ", "T", ".", "M", "(", "5", ")", ",", " ", "B", " ", "=", " ", "2", " ", "}">>
\* B = 2,
LineFieldB ==
    <<"B", " ", "=", " ", "2", ",">>

\* the catalog of handler initializers, whole and over several lines
HandlerLines == {LineHandler, LineFieldB, LinePooled, LinePooledFirst, LineClass}

SpecHandler == PassInit(HandlerLines, MaxLines) /\ [][ApiNext]_vars

JsonNext ==
    \/ Apply("fix_json_imports", fix_json_imports(content))
    \/ Apply("fix_json_serializer_options", fix_json_serializer_options(content))
    \/ Apply("fix_json_serialize", fix_json_serialize(content))
    \/ Apply("fix_json_deserialize", fix_json_deserialize(content))
    \/ Apply("fix_json_attributes", fix_json_attributes(content))
    \/ Apply("add_newtonsoft_using", add_newtonsoft_using(content))
    \/ Apply("fix_using_var", fix_using_var(content))
    \/ Apply("fix_using_var_simple", fix_using_var_simple(content))
    \/ Apply("fix_json_document", fix_json_document(content))
    \/ Apply("add_newtonsoft_linq_using", add_newtonsoft_linq_using(content))

SpecJson == PassInit(JsonLines, MaxLines) /\ [][JsonNext]_vars

SpecCalls == PassInit(CallLines, MaxLines) /\ [][JsonNext]_vars

\* using var y =
LineUsingVarOpen ==
    <<"using", " ", "var", " ", "y", " ", "=">>
\*     Open();
LineOpenCall ==
    <<" ", " ", " ", " ", "Open", "(", ")", ";">>

\* the catalog of resource declarations, on one line and wrapped after `=`
UsingVarLines == {LineUsingVar, LineUsingVarDoc, LineUsingVarOpen, LineOpenCall, LineClass}

SpecUsingVar == PassInit(UsingVarLines, MaxLines) /\ [][JsonNext]_vars

(***************************************************************************)
(* The driver level: process_file and main of the five scripts.            *)
(*                                                                         *)
(* A file is its bytes: the tokens of its text, after a byte-order mark    *)
(* when it has one.  The tree holds four paths: two that every hand-made   *)
(* file list names, one that no list names, and one whose name the         *)
(* dialect-lowering script excludes.                                       *)
(***************************************************************************)
Drivers ==
    {"fix_dotnet_syntax", "fix_api_calls", "fix_json", "fix_using_declarations",
     "fix_remaining_syntax"}

PathMain == "MainWindow.xaml.cs"
PathAssembly == "Properties/AssemblyInfo.cs"
PathData == "Services/RealDataProvider.cs"
PathSettings == "Services/SettingsManager.cs"
Paths == {PathMain, PathAssembly, PathData, PathSettings}

\* Path.name
Name(p) ==
    CASE p = PathMain -> "MainWindow.xaml.cs"
      [] p = PathAssembly -> "AssemblyInfo.cs"
      [] p = PathData -> "RealDataProvider.cs"
      [] p = PathSettings -> "SettingsManager.cs"

\* sorted(): the paths of the tree in Path order
SortedPaths == <<PathMain, PathAssembly, PathData, PathSettings>>

exclude == {"AssemblyInfo.cs", "NetFrameworkExtensions.cs", "Program.Flash.cs"}

\* files_to_fix of each script, cut down to the paths of the tree, in list order
ApiFiles == <<PathData, PathSettings>>
JsonFiles == <<PathData, PathSettings>>
UsingFiles == <<PathData, PathSettings>>
RemainingFiles == <<PathData, PathSettings>>

RECURSIVE Filter(_, _)
Filter(paths, keep) ==
    IF paths = <<>> THEN <<>>
    ELSE (IF Head(paths) \in keep THEN <<Head(paths)>> ELSE <<>>) \o Filter(Tail(paths), keep)

\* sorted(f for f in base_dir.rglob('*.cs') if f.name not in exclude)
CsFiles(tree) ==
    Filter(SortedPaths, {p \in Paths : tree[p].exists /\ Name(p) \notin exclude})

\* every script choosing its paths the way fix_dotnet_syntax does
TargetsByScan(d, tree) == CsFiles(tree)

\* the paths main() of a script loops over
Targets(d, tree) ==
    CASE d = "fix_dotnet_syntax" -> CsFiles(tree)
      [] d = "fix_api_calls" -> ApiFiles
      [] d = "fix_json" -> JsonFiles
      [] d = "fix_using_declarations" -> UsingFiles
      [] d = "fix_remaining_syntax" -> RemainingFiles

\* only fix_dotnet_syntax.process_file wraps its open() calls in try/except
CatchesIOErrors(d) == d = "fix_dotnet_syntax"

BOM == "U+FEFF"

\* open(filepath, 'r', encoding='utf-8-sig').read(): a leading mark is dropped
Decode(bytes) == IF bytes # <<>> /\ Head(bytes) = BOM THEN Tail(bytes) ELSE bytes

\* open(filepath, 'w', encoding='utf-8').write(content): no mark is written
Encode(text) == text

HasBOM(bytes) == bytes # <<>> /\ Head(bytes) = BOM

\* the passes process_file of each script applies, in its order
DotnetPipeline(text) ==
    LET a == fix_file_scoped_namespace(text)
        b == fix_nullable_annotations(a)
        c == fix_target_typed_new(b)
        d == fix_pattern_matching(c)
        e == fix_lambda_static(d)
        f == fix_init_accessor(e)
    IN Last(<<a, b, c, d, e, f>>)

ApiPipeline(text) ==
    LET a == fix_file_async_methods(text)
        b == fix_math_clamp(a)
        c == fix_sha256_hashdata(b)
        d == fix_sockets_http_handler(c)
        e == fix_wait_async(d)
        f == fix_get_value_or_default(e)
        g == fix_take_last_skip_last(f)
    IN Last(<<a, b, c, d, e, f, g>>)

JsonPipeline(text) ==
    LET a == fix_json_imports(text)
        b == fix_json_serializer_options(a)
        c == fix_json_serialize(b)
        d == fix_json_deserialize(c)
        e == fix_json_attributes(d)
        f == add_newtonsoft_using(e)
    IN Last(<<a, b, c, d, e, f>>)

UsingPipeline(text) ==
    LET a == fix_using_var_simple(text)
        b == fix_json_document(a)
        c == add_newtonsoft_linq_using(b)
    IN Last(<<a, b, c>>)

RemainingPipeline(text) ==
    LET a == fix_lazy_lambda(text)
        b == fix_property_new(a)
    IN Last(<<a, b>>)

Pipeline(d, text) ==
    CASE d = "fix_dotnet_syntax" -> DotnetPipeline(text)
      [] d = "fix_api_calls" -> ApiPipeline(text)
      [] d = "fix_json" -> JsonPipeline(text)
      [] d = "fix_using_declarations" -> UsingPipeline(text)
      [] d = "fix_remaining_syntax" -> RemainingPipeline(text)

\* record Point(int X);
LineRecordBare ==
    <<"record", " ", "Point", "(", "int", " ", "X", ")", ";">>

\* the catalog of type declarations
RecordLines == {LineRecord, LineRecordBare, LineClass, LineIsNotNull, LineField}

\* process_file of fix_dotnet_syntax on the text of a unit
DotnetFileNext == Apply("DotnetPipeline", DotnetPipeline(content))

SpecDotnetFile == PassInit(RecordLines, MaxLines) /\ [][DotnetFileNext]_vars

\* the passes of fix_dotnet_syntax with fix_target_typed_new ahead of
\* fix_nullable_annotations
PassOrderTypedNewFirst(d) ==
    IF d = "fix_dotnet_syntax"
    THEN <<"fix_file_scoped_namespace", "fix_target_typed_new", "fix_nullable_annotations",
           "fix_pattern_matching", "fix_lambda_static", "fix_init_accessor">>
    ELSE <<"fix_lazy_lambda", "fix_property_new">>

\* the statements `content = fix_x(content)` of process_file, as written
PassOrder(d) ==
    CASE d = "fix_dotnet_syntax" ->
            <<"fix_file_scoped_namespace", "fix_nullable_annotations", "fix_target_typed_new",
              "fix_pattern_matching", "fix_lambda_static", "fix_init_accessor">>
      [] d = "fix_api_calls" ->
            <<"fix_file_async_methods", "fix_math_clamp", "fix_sha256_hashdata",
              "fix_sockets_http_handler", "fix_wait_async", "fix_get_value_or_default",
              "fix_take_last_skip_last">>
      [] d = "fix_json" ->
            <<"fix_json_imports", "fix_json_serializer_options", "fix_json_serialize",
              "fix_json_deserialize", "fix_json_attributes", "add_newtonsoft_using">>
      [] d = "fix_using_declarations" ->
            <<"fix_using_var_simple", "fix_json_document", "add_newtonsoft_linq_using">>
      [] d = "fix_remaining_syntax" -> <<"fix_lazy_lambda", "fix_property_new">>

\* statement i of process_file of script d; the first follows `original = content`
StepPass(d, i) ==
    /\ content' = RunPass(PassOrder(d)[i], content)
    /\ before' = content
    /\ lastPass' = PassOrder(d)[i]
    /\ requested' = (requested \/ Requests(PassOrder(d)[i], content))
    /\ original' = IF i = 1 THEN content ELSE original
    /\ UNCHANGED <<warnings, driverVars>>

\* the last statement of a process_file has run, or none has yet
BetweenFiles == lastPass \in {""} \cup {Last(PassOrder(d)) : d \in Drivers}

\* process_file of script d starts on the text as it is
OpenFile(d) == BetweenFiles /\ StepPass(d, 1)

\* process_file goes on to its next statement
NextPass(d) ==
    \E i \in 1..(Len(PassOrder(d)) - 1) : lastPass = PassOrder(d)[i] /\ StepPass(d, i + 1)

StepNext == \E d \in Drivers : OpenFile(d) \/ NextPass(d)

\* private List<string>? _x = new();
LineNullableField ==
    <<"private", " ", "List", "<", "string", ">", "?", " ", "_x", " ", "=", " ", "new", "(", ")",
      ";">>

\* the catalog of units that several scripts rewrite
StepLines == {LineNamespace, LineNullableField, LineClamp, LineSerialize}

SpecSteps == PassInit(StepLines, MaxLines) /\ [][StepNext]_vars

\* process_file of fix_api_calls on the text of a unit: from the text read to
\* the text compared with it
ApiFileNext == Apply("ApiPipeline", ApiPipeline(content))

SpecApiFile == PassInit(ImportLines, MaxImportLines) /\ [][ApiFileNext]_vars

\* process_file of fix_using_declarations on the text of a unit
UsingFileNext == Apply("UsingPipeline", UsingPipeline(content))

\* using Newtonsoft.Json.Linq;
LineUsingLinq ==
    <<"using", " ", "Newtonsoft", ".", "Json", ".", "Linq", ";">>

\* the catalog of document-parse units: imports, the parse call as a
\* resource declaration, another resource declaration and a type
DocumentLines == {LineUsingSystem, LineUsingLinq, LineUsingVarDoc, LineUsingVar, LineClass}

SpecUsingFile == PassInit(DocumentLines, MaxImportLines) /\ [][UsingFileNext]_vars

\* process_file of fix_json on the text of a unit
JsonFileNext == Apply("JsonPipeline", JsonPipeline(content))

\* the units of whole statements: every line a directive or a statement that
\* ends on its line
StatementLines == JsonLines \ {LineSerializeOpen}

SpecJsonFile == PassInit(StatementLines, MaxLines) /\ [][JsonFileNext]_vars

\* the three scripts that share files, run on one file in any order
FamilyNext == ApiFileNext \/ JsonFileNext \/ UsingFileNext

\* the catalog of units that the three scripts rewrite: an import, two
\* resource declarations and a removed runtime call
FamilyLines == {LineUsingSystem, LineUsingVar, LineUsingVarDoc, LineClamp}

SpecFamily == PassInit(FamilyLines, MaxImportLines) /\ [][FamilyNext]_vars

\* private readonly List<string> _items = new();\n
UnitTargetTypedNew ==
    <<"private", " ", "readonly", " ", "List", "<", "string", ">", " ", "_items", " ",
      "=", " ", "new", "(", ")", ";", "\n">>
\* namespace Foo.Bar;\nclass X {}\n
UnitNamespace ==
    <<"namespace", " ", "Foo", ".", "Bar", ";", "\n", "class", " ", "X", " ", "{", "}",
      "\n">>
\* if (x is not null) { y(); }\n
UnitIsNotNull ==
    <<"if", " ", "(", "x", " ", "is", " ", "not", " ", "null", ")", " ", "{", " ", "y",
      "(", ")", ";", " ", "}", "\n">>
\* using System.Text.Json;\nJsonSerializer.Serialize(obj, options)\n
UnitSerialize ==
    <<"using", " ", "System", ".", "Text", ".", "Json", ";", "\n", "JsonSerializer",
      ".", "Serialize", "(", "obj", ",", " ", "options", ")", "\n">>
\* using System;\nMath.Clamp(v, 0, 1)\n
UnitClamp ==
    <<"using", " ", "System", ";", "\n", "Math", ".", "Clamp", "(", "v", ",", " ", "0",
      ",", " ", "1", ")", "\n">>
\* class X {}\n
UnitPlain ==
    <<"class", " ", "X", " ", "{", "}", "\n">>
\* if (x is not null) { y = Math.Clamp(v, 0, 1); }\n
UnitMixed ==
    <<"if", " ", "(", "x", " ", "is", " ", "not", " ", "null", ")", " ", "{", " ", "y", " ",
      "=", " ", "Math", ".", "Clamp", "(", "v", ",", " ", "0", ",", " ", "1", ")", ";", " ",
      "}", "\n">>
\* public Foo F { get; set; } = new();\n
UnitProperty ==
    <<"public", " ", "Foo", " ", "F", " ", "{", " ", "get", ";", " ", "set", ";", " ", "}",
      " ", "=", " ", "new", "(", ")", ";", "\n">>
\* using var doc = Load(x);\n
UnitUsingVar ==
    <<"using", " ", "var", " ", "doc", " ", "=", " ", "Load", "(", "x", ")", ";", "\n">>

ScenarioUnits == {UnitTargetTypedNew, UnitNamespace, UnitIsNotNull, UnitSerialize, UnitClamp}
Units == ScenarioUnits \cup {UnitPlain, UnitMixed, UnitProperty, UnitUsingVar}

Missing == [exists |-> FALSE, bytes |-> <<>>, access |-> "rw"]
File(bytes, access) == [exists |-> TRUE, bytes |-> bytes, access |-> access]

Init ==
    /\ content = <<>> /\ original = <<>> /\ before = <<>> /\ lastPass = "" /\ requested = FALSE
    /\ warnings = {}
    /\ \E settings \in {File(b \o u, "rw") : b \in {<<>>, <<BOM>>}, u \in Units},
          data \in {Missing, File(UnitPlain, "rw")}
                       \cup {File(UnitMixed, a) : a \in {"rw", "noread", "nowrite"}} :
          disk = [p \in Paths |->
                     CASE p = PathSettings -> settings
                       [] p = PathData -> data
                       [] p = PathMain -> File(UnitMixed, "rw")
                       [] p = PathAssembly -> File(UnitMixed, "rw")]
    /\ pc = "idle" /\ driver = "none" /\ queue = <<>> /\ modified = 0
    /\ errors = {} /\ attempted = {} /\ written = {} /\ start = disk
    /\ writers = [p \in Paths |-> {}] /\ lastCall = NoCall /\ origin = disk

\* python <script>.py: main() up to its loop
Start(d) ==
    /\ pc \in {"idle", "done", "crashed"}
    /\ pc' = "running" /\ driver' = d /\ queue' = Targets(d, disk) /\ modified' = 0
    /\ errors' = {} /\ attempted' = {} /\ written' = {} /\ start' = disk
    /\ lastCall' = NoCall
    /\ UNCHANGED <<disk, writers, origin, passVars>>

Visiting(p) == pc = "running" /\ queue # <<>> /\ p = Head(queue)

\* rerun: the script has rewritten the file before this call
Call(p, outcome) == [path |-> p, rerun |-> driver \in writers[p], outcome |-> outcome]

\* `if filepath.exists():` is false: the loop goes on to the next path
SkipMissing(p) ==
    /\ Visiting(p) /\ ~disk[p].exists
    /\ queue' = Tail(queue) /\ attempted' = attempted \cup {p}
    /\ UNCHANGED <<disk, pc, driver, modified, errors, written, start, writers, lastCall,
                   origin, passVars>>

\* an exception of process_file: caught and printed by fix_dotnet_syntax, which
\* returns False; in the other scripts it leaves process_file and main()
Raise(p, outcome) ==
    /\ attempted' = attempted \cup {p}
    /\ lastCall' = Call(p, outcome)
    /\ IF CatchesIOErrors(driver)
       THEN errors' = errors \cup {p} /\ queue' = Tail(queue) /\ pc' = pc
       ELSE errors' = errors /\ queue' = queue /\ pc' = "crashed"
    /\ UNCHANGED <<disk, driver, modified, written, start, writers, origin, passVars>>

\* process_file: open(filepath, 'r') raises
ReadError(p) ==
    /\ Visiting(p) /\ disk[p].exists /\ disk[p].access = "noread"
    /\ Raise(p, "read error")

\* process_file: the text is changed by the passes and open(filepath, 'w') raises
WriteError(p) ==
    /\ Visiting(p) /\ disk[p].exists /\ disk[p].access = "nowrite"
    /\ Pipeline(driver, Decode(disk[p].bytes)) # Decode(disk[p].bytes)
    /\ Raise(p, "write error")

\* process_file: the text is changed by the passes and written back; returns True
Modify(p) ==
    /\ Visiting(p) /\ disk[p].exists /\ disk[p].access = "rw"
    /\ LET read == Decode(disk[p].bytes)
           new == Pipeline(driver, read)
       IN /\ new # read
          /\ disk' = [disk EXCEPT ![p].bytes = Encode(new)]
    /\ modified' = modified + 1
    /\ queue' = Tail(queue) /\ attempted' = attempted \cup {p}
    /\ written' = written \cup {p}
    /\ writers' = [writers EXCEPT ![p] = @ \cup {driver}]
    /\ lastCall' = Call(p, "modified")
    /\ UNCHANGED <<pc, driver, errors, start, origin, passVars>>

\* process_file: the passes leave the text as read; nothing is written; returns False
NoChange(p) ==
    /\ Visiting(p) /\ disk[p].exists /\ disk[p].access # "noread"
    /\ Pipeline(driver, Decode(disk[p].bytes)) = Decode(disk[p].bytes)
    /\ queue' = Tail(queue) /\ attempted' = attempted \cup {p}
    /\ lastCall' = Call(p, "no change")
    /\ UNCHANGED <<disk, pc, driver, modified, errors, written, start, writers, origin,
                   passVars>>

\* main() after its loop: the summary line with the modified count
Finish ==
    /\ pc = "running" /\ queue = <<>>
    /\ pc' = "done"
    /\ UNCHANGED <<disk, driver, queue, modified, errors, attempted, written, start, writers,
                   lastCall, origin, passVars>>

Next ==
    \/ \E d \in Drivers : Start(d)
    \/ \E p \in Paths : SkipMissing(p)
    \/ \E p \in Paths : ReadError(p)
    \/ \E p \in Paths : WriteError(p)
    \/ \E p \in Paths : Modify(p)
    \/ \E p \in Paths : NoChange(p)
    \/ Finish

Spec == Init /\ [][Next]_vars

(***************************************************************************)
(* Properties of the passes and of the drivers.                            *)
(***************************************************************************)
\* the number of lines of a text that are the directive, indentation aside
CountLine(text, directive) ==
    Cardinality({i \in 1..Len(Split(text)) : Strip(Split(text)[i]) = directive})

\* the lines of a text, as a set
LineSet(text) == {Split(text)[i] : i \in 1..Len(Split(text))}

\* no using line of the text occurs twice
ImportsUnique(text) ==
    \A i, j \in 1..Len(Split(text)) :
        (IsUsingLine(Split(text)[i]) /\ Strip(Split(text)[i]) = Strip(Split(text)[j])) => i = j

\* the paths the running script was started on
Listed == {Targets(driver, start)[i] : i \in 1..Len(Targets(driver, start))}

\* the run has come to its end, by the summary line or by an exception
Ended == pc \in {"done", "crashed"}

\* the paths on which process_file raised in this run
Faulted == errors \cup (IF pc = "crashed" THEN {lastCall.path} ELSE {})

\* the passes of the running script change the text the file held at the start
Differs(p) == Pipeline(driver, Decode(start[p].bytes)) # Decode(start[p].bytes)

\* C1: every pass is idempotent: a pass applied to its own output, whatever
\* the input was (two `namespace X;` lines included), gives that output again.
PassIdempotent == lastPass # "" => RunPass(lastPass, content) = content

\* the last step was a process_file call on a file that began as one of the
\* five scenario inputs and that the same script has rewritten before
RerunOfScenario ==
    /\ lastCall.outcome # "none"
    /\ lastCall.rerun
    /\ Decode(origin[lastCall.path].bytes) \in ScenarioUnits

\* C2: a script run again over a scenario file it has rewritten computes the
\* text it read, writes nothing and returns False.
RerunIsNoOp ==
    RerunOfScenario =>
        /\ lastCall.outcome = "no change"
        /\ Pipeline(driver, Decode(disk[lastCall.path].bytes)) = Decode(disk[lastCall.path].bytes)

\* C2, its case: a second process_file on a rewritten scenario file has returned
RerunSeen == RerunOfScenario /\ lastCall.outcome = "no change" /\ lastCall.path \notin written

\* C3: a unit with an import anchor and at most one `using SvonyBrowser.Helpers;`
\* line has exactly one such line after any run of runtime-API passes of which
\* one asked for the directive.
OneHelpersImport ==
    (requested /\ LastUsing(Split(original)) >= 1 /\ CountLine(original, HelpersUsing) <= 1)
        => CountLine(content, HelpersUsing) = 1

\* C4: a unit whose import lines are pairwise different and that imports
\* System.Text.Json has, after fix_json_imports and then add_newtonsoft_using,
\* exactly one `using Newtonsoft.Json;` line.
OneNewtonsoftImport ==
    (/\ lastPass = "add_newtonsoft_using"
     /\ before = fix_json_imports(original)
     /\ ImportsUnique(original)
     /\ CountLine(original, <<"using", SP, "System", ".", "Text", ".", "Json", ";">>) = 1)
        => CountLine(content, NewtonsoftUsing) = 1

\* C5: nullable-annotation stripping leaves every line without a `?` as it
\* was: the same characters, still a line of its own.
NullableKeepsOtherLines ==
    lastPass = "fix_nullable_annotations" =>
        \A l \in LineSet(before) : ~Contains(l, <<"?">>) => l \in LineSet(content)

\* namespace Foo.Bar\n{\n    class X {}\n}\n
NamespaceBlock ==
    <<"namespace", " ", "Foo", ".", "Bar", "\n", "{", "\n", " ", " ", " ", " ", "class", " ",
      "X", " ", "{", "}", "\n", "}", "\n">>

\* C6: namespace-block lowering of `namespace Foo.Bar;\nclass X {}\n` gives the
\* block form with one line break after the closing brace.
NamespaceLowered ==
    (lastPass = "fix_file_scoped_namespace" /\ before = UnitNamespace) => content = NamespaceBlock

\* C7: a run ends only when every path of its list has been attempted, an
\* error on one file notwithstanding.
WholeListAttempted == Ended => Listed \subseteq attempted

\* C8: at the end of a run, a listed file on which nothing raised has been
\* written exactly if it exists and the passes change its text, and the
\* modified count is the number of files written.
WrittenIffChanged ==
    Ended =>
        /\ \A p \in Listed \ Faulted : (p \in written) <=> (start[p].exists /\ Differs(p))
        /\ modified = Cardinality(written)

\* the paths the hand-made lists name
HandList == {PathData, PathSettings}

\* C9, as claimed: whatever the script, only files of a hand-made list are written.
WritesConfinedToList == written \subseteq HandList

\* C9: the four scripts with a hand-made list write only files of that list;
\* fix_dotnet_syntax writes only the *.cs files its scan finds, the excluded
\* names left out.
WritesConfinedToTargets ==
    /\ driver # "fix_dotnet_syntax" => written \subseteq HandList
    /\ driver = "fix_dotnet_syntax" => written \subseteq {PathMain, PathData, PathSettings}

\* C9, its case: a list script has ended having written a listed file, and has
\* left alone an unlisted file its passes would change
UnlistedLeftAlone ==
    /\ pc = "done" /\ driver = "fix_api_calls" /\ written # {}
    /\ Pipeline(driver, Decode(disk[PathMain].bytes)) # Decode(disk[PathMain].bytes)
    /\ disk[PathMain] = start[PathMain]

\* C10: a file written back begins with a byte-order mark exactly if it did
\* before the run.
MarkPreserved == \A p \in written : HasBOM(disk[p].bytes) = HasBOM(start[p].bytes)

\* a top-of-file import statement: a using line that is not a `using var`
\* resource declaration
IsImportLine(line) ==
    IsUsingLine(line) /\ ~StartsWith(Strip(line), <<"using", SP, "var", SP>>)

\* the number of lines up to the last import statement, 0 for none
LastImport(lines) == Max({0} \cup {i \in 1..Len(lines) : IsImportLine(lines[i])})

\* the last step was an import-injecting pass of the serialization scripts
\* that changed the text
ImportInjected ==
    lastPass \in {"add_newtonsoft_using", "add_newtonsoft_linq_using"} /\ content # before

\* C11: an injected import directive is inserted directly after the last
\* top-of-file import line; a `using var x = ...;` statement never decides
\* the place of the insertion.
InsertedAfterLastImport ==
    ImportInjected =>
        /\ LastImport(Split(before)) >= 1
        /\ Split(content) =
              InsertAt(Split(before), LastImport(Split(before)),
                       IF lastPass = "add_newtonsoft_using" THEN NewtonsoftUsing ELSE LinqUsing)

\* the last step was a runtime-API pass that found its call pattern in a unit
\* without the helper directive and without an import line
NeedsAnchor ==
    /\ lastPass # ""
    /\ Requests(lastPass, before)
    /\ ~Contains(before, HelpersUsing)
    /\ LastImport(Split(before)) = 0

\* C12: a pass that needs a directive in a unit without an import line inserts
\* no line and records a 'no import anchor found' warning.
MissingAnchorWarned ==
    NeedsAnchor =>
        /\ Len(Split(content)) = Len(Split(before))
        /\ CountLine(content, HelpersUsing) = 0
        /\ warnings # {}

\* a unit with a Math.Clamp call, an import line and no helper import line
ClampUnit(text) ==
    /\ Contains(text, MathClamp \o <<"(">>)
    /\ LastImport(Split(text)) >= 1
    /\ CountLine(text, HelpersUsing) = 0

\* the lines of the unit with every Math.Clamp renamed and nothing else changed
ClampRenamed(text) == Split(Replace(text, MathClamp, <<"MathEx", ".", "Clamp">>))

\* C13: the runtime-API pipeline on a unit with a Math.Clamp call, an import
\* line and no helper import gives the unit with every Math.Clamp renamed to
\* MathEx.Clamp and one `using SvonyBrowser.Helpers;` line, directly after
\* the last import line the unit had.
ClampRemapped ==
    (lastPass = "ApiPipeline" /\ ClampUnit(before)) =>
        /\ CountLine(content, HelpersUsing) = 1
        /\ Len(Split(content)) = Len(ClampRenamed(before)) + 1
        /\ Strip(Split(content)[LastImport(Split(before)) + 1]) = HelpersUsing
        /\ SubSeq(Split(content), 1, LastImport(Split(before)))
              = SubSeq(ClampRenamed(before), 1, LastImport(Split(before)))
        /\ SubSeq(Split(content), LastImport(Split(before)) + 2, Len(Split(content)))
              = SubSeq(ClampRenamed(before), LastImport(Split(before)) + 1,
                       Len(ClampRenamed(before)))

\* the last position up to j of a line that holds no whitespace, 0 for none
BackWs(line, j) == Max({0} \cup {k \in 1..Min({j, Len(line)}) : ~IsWS(line[k])})

\* where `= new();` starts in a line that holds it
InitAt(line) == Min({q \in 1..Len(line) : MatchesAt(line, q, NewInit)})

\* the position of the declared name: the word before `=`, or before the
\* accessor block `{ ... }` of a property
NameAt(line) ==
    IF line[BackWs(line, InitAt(line) - 1)] = "}"
    THEN BackWs(line, Min({k \in 1..Len(line) : line[k] = "{"}) - 1)
    ELSE BackWs(line, InitAt(line) - 1)

\* the last whitespace-delimited token of the declared type before the name
DeclaredType(line) ==
    SubSeq(line,
           1 + Max({0} \cup {k \in 1..BackWs(line, NameAt(line) - 1) : IsWS(line[k])}),
           BackWs(line, NameAt(line) - 1))

\* a line `<modifiers> T name = new();` or `T Name { get; set; } = new();`
IsNewDeclaration(line) ==
    /\ Contains(line, NewInit)
    /\ BackWs(line, InitAt(line) - 1) >= 1
    /\ NameAt(line) >= 1
    /\ IsWord(line[NameAt(line)])
    /\ BackWs(line, NameAt(line) - 1) >= 1

\* C14: target-typed construction expansion turns every declaration line
\* `T name = new();` into the same line with `= new();` replaced by
\* `= new T();`, T the last whitespace-delimited token of the declared type.
NewExpandedToDeclaredType ==
    lastPass = "fix_target_typed_new" =>
        \A i \in 1..Len(Split(before)) :
            IsNewDeclaration(Split(before)[i]) =>
                Split(content)[i]
                    = Replace(Split(before)[i], NewInit,
                              <<"=", SP, "new", SP>> \o DeclaredType(Split(before)[i])
                                  \o <<"(", ")", ";">>)

\* a unit with the line `using System.Text.Json;` and the call
\* `JsonSerializer.Serialize(obj, options)`
SerializeUnit(text) == CountLine(text, LineUsingJson) >= 1 /\ Contains(text, LineSerialize)

\* C15: the serialization pipeline on a unit with the System.Text.Json import
\* and a call `JsonSerializer.Serialize(obj, options)` gives a unit where the
\* call reads `JsonConvert.SerializeObject(obj, options)`, the import reads
\* `using Newtonsoft.Json;` and no `using System.Text.Json;` line is left.
SerializeRemapped ==
    (lastPass = "JsonPipeline" /\ SerializeUnit(before)) =>
        /\ Contains(content, SerializeObject \o <<"(", "obj", ",", SP, "options", ")">>)
        /\ ~Contains(content, LineSerialize)
        /\ CountLine(content, NewtonsoftUsing) >= 1
        /\ CountLine(content, LineUsingJson) = 0

\* C15, its case: the pipeline has run on such a unit and has rewritten the call
SerializeUnitProcessed ==
    /\ lastPass = "JsonPipeline" /\ SerializeUnit(before)
    /\ Contains(content, SerializeObject \o <<"(", "obj", ",", SP, "options", ")">>)

IsNotNull == <<"is", SP, "not", SP, "null">>
IsNull == <<"is", SP, "null">>

\* C16: pattern-match simplification turns every `is not null` into
\* `!= null` and then every `is null` into `== null`, leaves everything else
\* (type and relational patterns included) as it was, and leaves neither
\* phrase in the text.
PatternSimplified ==
    lastPass = "fix_pattern_matching" =>
        /\ content = Replace(Replace(before, IsNotNull, <<"!=", SP, "null">>),
                             IsNull, <<"==", SP, "null">>)
        /\ ~Contains(content, IsNotNull)
        /\ ~Contains(content, IsNull)
        /\ \A l \in LineSet(before) : ~Contains(l, <<"null">>) => l \in LineSet(content)

\* C16, its case: the pass has rewritten a unit with both phrases and with
\* another `is` pattern
PatternsRewritten ==
    /\ lastPass = "fix_pattern_matching"
    /\ Contains(before, IsNotNull) /\ Contains(before, IsNull)
    /\ Contains(before, <<"is", SP, "not", SP, "string">>)
    /\ content # before

\* a `record <Name>` declaration starts at token i of the text
RecordAt(text, i) ==
    /\ i + 2 <= Len(text)
    /\ text[i] = "record" /\ text[i + 1] = SP /\ IsWord(text[i + 2])

\* C17: after fix_dotnet_syntax has processed a file, no `record <Name>`
\* declaration remains: each is the same line with `class` in the place of
\* `record`.
RecordsFlattened ==
    lastPass = "DotnetPipeline" =>
        /\ \A i \in 1..Len(content) : ~RecordAt(content, i)
        /\ \A l \in LineSet(before) :
               (\E i \in 1..Len(l) : RecordAt(l, i)) =>
                   Replace(l, <<"record">>, <<"class">>) \in LineSet(content)

RenamePasses == {"fix_file_async_methods", "fix_math_clamp", "fix_sha256_hashdata"}
EnsurePasses == {"fix_wait_async", "fix_get_value_or_default", "fix_take_last_skip_last"}

\* the old call names a pass of fix_api_calls looks for
OldNames(name) ==
    CASE name = "fix_file_async_methods" -> {FileWrite, FileRead}
      [] name = "fix_math_clamp" -> {MathClamp}
      [] name = "fix_sha256_hashdata" -> {HashData}
      [] name = "fix_sockets_http_handler" -> {<<"SocketsHttpHandler">>}
      [] name = "fix_wait_async" -> {<<".", "WaitAsync", "(">>}
      [] name = "fix_get_value_or_default" -> {<<".", "GetValueOrDefault", "(">>}
      [] name = "fix_take_last_skip_last" -> {<<".", "TakeLast", "(">>, <<".", "SkipLast", "(">>}
      [] OTHER -> {}

Occurs(name, text) == \E old \in OldNames(name) : Contains(text, old)

\* the text with the old names of a renaming pass replaced by the helper's
ShimNamed(name, text) ==
    CASE name = "fix_file_async_methods" ->
            Replace(Replace(text, FileWrite, <<"FileEx", ".", "WriteAllTextAsync">>),
                    FileRead, <<"FileEx", ".", "ReadAllTextAsync">>)
      [] name = "fix_math_clamp" -> Replace(text, MathClamp, <<"MathEx", ".", "Clamp">>)
      [] name = "fix_sha256_hashdata" -> Replace(text, HashData, <<"HashEx", ".", "SHA256">>)
      [] OTHER -> text

\* text a is text b, or text b with one helper import line put in
AddsAtMostImport(a, b) ==
    \/ a = b
    \/ \E i \in 1..Len(Split(a)) :
          /\ Split(a)[i] = INDENT \o HelpersUsing
          /\ Len(Split(a)) = Len(Split(b)) + 1
          /\ \A k \in 1..Len(Split(b)) : Split(b)[k] = Split(a)[IF k < i THEN k ELSE k + 1]

CatalogNames == {ref_types[k] : k \in 1..Len(ref_types)}

\* the `?` at token i directly follows a catalog name or a closing `>` and is
\* directly followed by one of the delimiters
MarkAt(text, i, delimiters) ==
    /\ 1 < i /\ i < Len(text)
    /\ text[i] = "?"
    /\ text[i - 1] \in CatalogNames \cup {">"}
    /\ text[i + 1] \in delimiters

RECURSIVE WithoutMarks(_, _, _)
\* the text with the marks before the delimiters taken out, from token i on
WithoutMarks(text, i, delimiters) ==
    IF i > Len(text) THEN <<>>
    ELSE (IF MarkAt(text, i, delimiters) THEN <<>> ELSE <<text[i]>>)
             \o WithoutMarks(text, i + 1, delimiters)

\* C19: nullable-annotation stripping removes every `?` that directly follows
\* a catalog name or a closing `>` and is directly followed by whitespace, a
\* comma, `)`, `]` or `>`, and removes nothing else: the delimiter stays as it
\* was.
MarksStripped ==
    lastPass = "fix_nullable_annotations" =>
        content = WithoutMarks(before, 1, WS \cup {",", ")", "]", ">"})

\* value types: the simple types of the claim and the structs and the enum of
\* the presentation framework that ref_types names
ValueTypeNames == {"int", "bool", "double", "Color", "Thickness", "Visibility"}

\* the positions of the `?` marks that directly follow a value-type name
ValueMarks(text) ==
    {i \in 2..Len(text) : text[i] = "?" /\ text[i - 1] \in ValueTypeNames}

\* C20: nullable-annotation stripping keeps every `?` that directly follows a
\* value-type name: the marks of the output are the marks of the input, at
\* the same places.
ValueMarksKept ==
    lastPass = "fix_nullable_annotations" =>
        /\ Cardinality(ValueMarks(content)) = Cardinality(ValueMarks(before))
        /\ \A i \in ValueMarks(before) :
              \E j \in ValueMarks(content) : content[j - 1] = before[i - 1]

\* a file-scoped namespace declaration: `namespace X;`
IsNamespaceLine(line) ==
    StartsWith(Strip(line), <<"namespace", SP>>) /\ EndsWith(Strip(line), <<";">>)

\* the index of the first file-scoped namespace declaration, 0 when none
FirstNamespace(lines) ==
    Min({i \in 1..Len(lines) : IsNamespaceLine(lines[i])} \cup {Len(lines) + 1}) % (Len(lines) + 1)

\* the lines of a text as a reader counts them: the piece after a final line
\* break is not a line
LinesOf(text) ==
    LET ls == Split(text)
    IN IF ls # <<>> /\ ls[Len(ls)] = <<>> /\ text # <<>> THEN SubSeq(ls, 1, Len(ls) - 1) ELSE ls

\* one application has lowered a namespace declaration
Lowered ==
    lastPass = "fix_file_scoped_namespace" /\ FirstNamespace(Split(before)) # 0

\* C21 as stated: every line after the converted declaration is indented by
\* four spaces, every line before it is unchanged, and one `}` line is the
\* last line of the output.
NamespaceWrapsEveryLine ==
    Lowered =>
        LET old == Split(before)
            new == Split(content)
            k == FirstNamespace(old)
        IN /\ Len(new) = Len(old) + 2
           /\ \A i \in 1..(k - 1) : new[i] = old[i]
           /\ \A i \in (k + 1)..Len(LinesOf(before)) : new[i + 1] = INDENT \o old[i]
           /\ new[Len(new)] = <<"}">>

\* C21, amended: every line after the converted declaration that is not blank
\* is indented by four spaces, a blank line (empty or of whitespace only) is
\* kept as it is, every line before the declaration is unchanged, and one `}`
\* line is the last line of the output.
NamespaceWrapsInkedLines ==
    Lowered =>
        LET old == Split(before)
            new == Split(content)
            k == FirstNamespace(old)
        IN /\ Len(new) = Len(old) + 2
           /\ \A i \in 1..(k - 1) : new[i] = old[i]
           /\ \A i \in (k + 1)..Len(old) :
                 new[i + 1] = IF Strip(old[i]) = <<>> THEN old[i] ELSE INDENT \o old[i]
           /\ new[Len(new)] = <<"}">>

\* C21, its case: a declaration followed by a blank line and by a line that
\* is not blank has been lowered
BlankLineInBlock ==
    /\ Lowered
    /\ \E i, j \in (FirstNamespace(Split(before)) + 1)..Len(LinesOf(before)) :
          Strip(Split(before)[i]) = <<>> /\ Strip(Split(before)[j]) # <<>>

\* the number of tokens t in a text
CountToken(text, t) == Cardinality({i \in 1..Len(text) : text[i] = t})

\* C22: one application lowers the first `namespace X;` line only: it becomes
\* `namespace X` and `{`, the text gains one `{` and one `}`, and every later
\* namespace declaration keeps its text, semicolon included, inside the block.
OnlyFirstLowered ==
    Lowered =>
        LET old == Split(before)
            new == Split(content)
            k == FirstNamespace(old)
        IN /\ ~IsNamespaceLine(new[k]) /\ StartsWith(new[k], <<"namespace", SP>>)
           /\ new[k] \o <<";">> = Strip(old[k])
           /\ new[k + 1] = <<"{">>
           /\ CountToken(content, "{") = CountToken(before, "{") + 1
           /\ CountToken(content, "}") = CountToken(before, "}") + 1
           /\ \A i \in (k + 1)..Len(old) :
                 IsNamespaceLine(old[i]) =>
                    /\ IsNamespaceLine(new[i + 1])
                    /\ Strip(new[i + 1]) = Strip(old[i])
                    /\ new[i + 1] = INDENT \o old[i]

\* C22, its case: a text with two namespace declarations has been lowered
SeveralNamespaces ==
    /\ Lowered
    /\ Cardinality({i \in 1..Len(Split(before)) : IsNamespaceLine(Split(before)[i])}) >= 2

SerializeCall == <<"JsonSerializer", ".", "Serialize">>
DeserializeCall == <<"JsonSerializer", ".", "Deserialize">>

\* C23: fix_json_serialize and fix_json_deserialize turn every
\* `JsonSerializer.Serialize(args)` into `JsonConvert.SerializeObject(args)`
\* and every `JsonSerializer.Deserialize<T>(args)` into
\* `JsonConvert.DeserializeObject<T>(args)`, arguments and type argument as
\* they were, and leave no such call.
CallsRemapped ==
    /\ lastPass = "fix_json_serialize" =>
          /\ content = Replace(before, SerializeCall \o <<"(">>, SerializeObject \o <<"(">>)
          /\ ~Contains(content, SerializeCall \o <<"(">>)
    /\ lastPass = "fix_json_deserialize" =>
          /\ content = Replace(before, DeserializeCall \o <<"<">>, DeserializeObject \o <<"<">>)
          /\ ~Contains(content, DeserializeCall \o <<"<">>)

\* the number of places where the tokens p occur in a text
CountOf(text, p) == Cardinality({i \in 1..Len(text) : MatchesAt(text, i, p)})

\* C24: after fix_sockets_http_handler no SocketsHttpHandler and no
\* PooledConnectionLifetime assignment remains, and every other field
\* assignment, every brace and the comma or brace that ended the removed
\* assignment are still there.
PooledOptionStripped ==
    lastPass = "fix_sockets_http_handler" =>
        /\ ~Contains(content, <<"SocketsHttpHandler">>)
        /\ ~Contains(content, <<"PooledConnectionLifetime">>)
        /\ CountToken(content, "HttpClientHandler")
              = CountToken(before, "HttpClientHandler") + CountToken(before, "SocketsHttpHandler")
        /\ \A field \in {<<"A", SP, "=", SP, "1">>, <<"B", SP, "=", SP, "2">>} :
              CountOf(content, field) = CountOf(before, field)
        /\ CountToken(content, "}") = CountToken(before, "}")
        /\ CountToken(content, "{") = CountToken(before, "{")
        /\ CountOf(content, <<",", SP, "B">>) = CountOf(before, <<",", SP, "B">>)

\* C24, its case: the option has been taken out of an initializer in which
\* another field follows it
OptionBeforeField ==
    /\ lastPass = "fix_sockets_http_handler"
    /\ Contains(before, <<"PooledConnectionLifetime", SP, "=", SP, "T", ".", "M", "(", "5", ")", ",",
                          SP, "B">>)
    /\ Contains(content, <<"HttpClientHandler", SP, "{", ",", SP, "B", SP, "=", SP, "2", SP, "}">>)

UsingVar == <<"using", SP, "var", SP>>

\* a `using var <name> = <expr>;` declaration that is a line of its own
IsUsingVarLine(line) == StartsWith(Strip(line), UsingVar) /\ EndsWith(line, <<";">>)

\* C25: fix_using_var_simple turns every `using var <name> = <expr>;` into
\* `var <name> = <expr>;` with the review marker after it on the same line and
\* the indentation kept, changes neither the number of lines nor the number
\* of braces, and leaves no `using var` declaration.
UsingVarLowered ==
    lastPass = "fix_using_var_simple" =>
        LET old == Split(before)
            new == Split(content)
        IN /\ Len(new) = Len(old)
           /\ CountToken(content, "{") = CountToken(before, "{")
           /\ CountToken(content, "}") = CountToken(before, "}")
           /\ ~\E i \in 1..Len(content) :
                 MatchesAt(content, i, UsingVar) /\ \E j \in i..Len(content) : content[j] = ";"
           /\ \A i \in 1..Len(old) :
                 IsUsingVarLine(old[i]) =>
                    new[i] = Replace(old[i], UsingVar, <<"var", SP>>) \o <<SP, ReviewMarker>>

DocumentParse == <<"JsonDocument", ".", "Parse">>

\* C26: after process_file of fix_using_declarations on a unit that held
\* `JsonDocument.Parse`, no such call is left, each reads `JObject.Parse`, and
\* the unit has exactly one `using Newtonsoft.Json.Linq;` line.
DocumentParseImported ==
    (lastPass = "UsingPipeline" /\ Contains(before, DocumentParse)) =>
        /\ ~Contains(content, DocumentParse)
        /\ CountOf(content, <<"JObject", ".", "Parse">>)
              = CountOf(before, <<"JObject", ".", "Parse">>) + CountOf(before, DocumentParse)
        /\ CountLine(content, LinqUsing) = 1

\* C27: process_file applies its passes one after another, each once and each
\* to the output of the one before, in one fixed order: when its last pass
\* has run the text is the composition of the passes applied to the text
\* read; in fix_dotnet_syntax the namespace pass comes first and the nullable
\* pass comes directly before the target-typed `new` pass.
PassesInFixedOrder ==
    [][/\ before' = content
       /\ content' = RunPass(lastPass', content)
       /\ \A d \in Drivers :
             lastPass' = Last(PassOrder(d)) => content' = Pipeline(d, original')
       /\ lastPass' = "fix_file_scoped_namespace" => BetweenFiles /\ original' = content
       /\ lastPass' = "fix_nullable_annotations" => lastPass = "fix_file_scoped_namespace"
       /\ lastPass' = "fix_target_typed_new" => lastPass = "fix_nullable_annotations"
       /\ lastPass' = "fix_pattern_matching" => lastPass = "fix_target_typed_new"
       /\ lastPass' = "fix_lambda_static" => lastPass = "fix_pattern_matching"
       /\ lastPass' = "fix_init_accessor" => lastPass = "fix_lambda_static"
       /\ lastPass' \notin {"fix_file_scoped_namespace", "fix_file_async_methods",
                            "fix_json_imports", "fix_using_var_simple", "fix_lazy_lambda"}
             => original' = original
      ]_vars

\* C27, its case: fix_dotnet_syntax has gone through a declaration whose `?`
\* had to be taken off before its `new()` could be expanded
NullableThenTypedNew ==
    /\ lastPass = "fix_init_accessor"
    /\ Contains(original, <<">", "?", SP, "_x", SP, "=", SP, "new", "(", ")">>)
    /\ Contains(content, <<"_x", SP, "=", SP, "new", SP, "List", "<", "string", ">", "(", ")">>)

\* what a run leaves in file p, from what p held at the start and nothing
\* else: the passes' output where the file can be read and written and the
\* passes change its text, the file as it was otherwise
OwnOutcome(p) ==
    IF start[p].exists /\ start[p].access = "rw" /\ Differs(p)
    THEN [start[p] EXCEPT !.bytes = Encode(Pipeline(driver, Decode(start[p].bytes)))]
    ELSE start[p]

\* C28: at the end of a run every listed file holds what its own initial
\* content determines, whatever the other files of the list hold and wherever
\* they stand in the list, and the modified count is the number of files
\* whose content changed.
UnitsIndependent ==
    Ended =>
        /\ \A p \in Listed : disk[p] = OwnOutcome(p)
        /\ modified = Cardinality({p \in Listed : OwnOutcome(p) # start[p]})

\* the call names of the helper module that the passes of fix_api_calls write
ShimNames ==
    {<<"FileEx", ".", "WriteAllTextAsync">>, <<"FileEx", ".", "ReadAllTextAsync">>,
     <<"MathEx", ".", "Clamp">>, <<"HashEx", ".", "SHA256">>}

\* C29: after process_file of fix_api_calls, a unit that has gained a call to
\* a helper name has a `using SvonyBrowser.Helpers;` line, also when it had no
\* import line and when the directive's text stood in a comment only.
ShimCallHasImport ==
    (/\ lastPass = "ApiPipeline"
     /\ \E shim \in ShimNames : Contains(content, shim) /\ ~Contains(before, shim))
        => CountLine(content, HelpersUsing) >= 1

\* the texts the three scripts leave, one for each order of running them
AllOrders(text) ==
    {ApiPipeline(JsonPipeline(UsingPipeline(text))), ApiPipeline(UsingPipeline(JsonPipeline(text))),
     JsonPipeline(ApiPipeline(UsingPipeline(text))), JsonPipeline(UsingPipeline(ApiPipeline(text))),
     UsingPipeline(ApiPipeline(JsonPipeline(text))), UsingPipeline(JsonPipeline(ApiPipeline(text)))}

\* C30: when fix_json, fix_api_calls and fix_using_declarations have each run
\* once on a file, in this order, the text is the one that every other order
\* of the three gives.
DriverOrderIndependent ==
    (lastPass = "UsingPipeline" /\ before = ApiPipeline(JsonPipeline(original)))
        => AllOrders(original) = {content}

====
